---- MODULE Spec2Model ----
(***************************************************************************)
(* A model of vllm_batch_inference/adv_batch_inference.py: the lazy JSONL  *)
(* reader load_data (a generator), format_prompt, inference, save_data and *)
(* the driver main.                                                        *)
(*                                                                         *)
(* Text is a sequence of characters.  A character is a TLA+ string; the    *)
(* alphabet holds the JSON punctuation, the whitespace characters, and a   *)
(* few letters and words that stand for one character each ("p", "q",      *)
(* "id", "input", "output", and the pieces of the chat-template markers).  *)
(* A record (a Python dict) is a sequence of <<key, value>> pairs in       *)
(* insertion order with distinct keys; keys and values are texts.          *)
(***************************************************************************)
EXTENDS Integers, Sequences, FiniteSets, TLC

VARIABLES
    inFile,         \* input.jsonl as `for line in f` sees it: a sequence of lines
    batch_size,     \* load_data's batch_size
    pos,            \* lines of inFile the reader has consumed
    heap,           \* the list objects: heap[r] is the content of list r
    batchRef,       \* load_data's local `batch` (a reference into heap; 0: unbound)
    gen,            \* where the generator stands
    pc,             \* where the consumer (main) stands
    cur,            \* main's loop variable `batch` (a reference into heap)
    outputs,        \* main's local `outputs`
    outFile,        \* output.jsonl: [exists, text]
    out0,           \* output.jsonl as it was before the run
    loads,          \* how many times LLM(...) has constructed the engine
    err,            \* the exception that ended the run ("none" while there is none)
    yielded,        \* history: the content of each batch at the time it was yielded
    used,           \* history: the content of each batch as inference read it
    gens,           \* history: the raw texts the engine generated, one sequence per batch
    reqPos,         \* history: pos when the consumer last asked for a batch
    console,        \* what print has written: the lengths printed
    retained,       \* the references a retaining consumer has kept
    calls,          \* history: the data of each completed save_data call
    user_message,   \* format_prompt's argument
    system_message, \* format_prompt's argument (None, or a text)
    prompt          \* format_prompt's result (None before the call)

vars == <<inFile, batch_size, pos, heap, batchRef, gen, pc, cur, outputs, outFile,
          out0, loads, err, yielded, used, gens, reqPos, console, retained, calls,
          user_message, system_message, prompt>>

\* ------------------------------------------------------------------ bounds

MaxLines == 3
MaxBatch == 2
MaxCalls == 3
MaxMsgLen == 3
MaxTorn == 1

\* -------------------------------------------------------------- characters

NL == "\n"
SP == " "
QUOTE == "\""
BSL == "\\"
Whitespace == {SP, NL}

\* An optional text (str | None): None is <<>>, a text t is <<t>>.
None == <<>>
Some(t) == <<t>>

Min(a, b) == IF a < b THEN a ELSE b

RECURSIVE Concat(_)
\* "".join(texts)
Concat(texts) ==
    IF texts = <<>> THEN <<>> ELSE Head(texts) \o Concat(Tail(texts))

IsPrefix(s, t) == Len(s) <= Len(t) /\ SubSeq(t, 1, Len(s)) = s

\* ------------------------------------------------------------------- dicts

HasKey(d, k) == \E i \in 1..Len(d) : d[i][1] = k

\* d[k]; the caller has checked HasKey(d, k)
Get(d, k) == d[CHOOSE i \in 1..Len(d) : d[i][1] = k][2]

\* d[k] = v on a dict: an existing key keeps its place and takes the new value,
\* a new key goes last.
DictSet(d, k, v) ==
    IF HasKey(d, k)
    THEN [i \in 1..Len(d) |-> IF d[i][1] = k THEN <<k, v>> ELSE d[i]]
    ELSE Append(d, <<k, v>>)

\* ------------------------------------------------------------- json.dumps

\* One character of a JSON string, escaped as json.dumps escapes it.
EscapeChar(c) ==
    IF c = QUOTE THEN <<BSL, QUOTE>>
    ELSE IF c = BSL THEN <<BSL, BSL>>
    ELSE IF c = NL THEN <<BSL, "n">>
    ELSE <<c>>

DumpsStr(s) == <<QUOTE>> \o Concat([i \in 1..Len(s) |-> EscapeChar(s[i])]) \o <<QUOTE>>

\* json.dumps(item) with the default separators (", " and ": ").
dumps(item) ==
    <<"{">>
    \o Concat([i \in 1..Len(item) |->
                (IF i > 1 THEN <<",", SP>> ELSE <<>>)
                \o DumpsStr(item[i][1]) \o <<":", SP>> \o DumpsStr(item[i][2])])
    \o <<"}">>

\* ------------------------------------------------------------- json.loads
\* A parse result is [ok, val, next]: next is the index after what was read.

Fail == [ok |-> FALSE, val |-> <<>>, next |-> 0]
Ok(v, n) == [ok |-> TRUE, val |-> v, next |-> n]

RECURSIVE SkipWs(_, _)
SkipWs(t, i) ==
    IF i <= Len(t) /\ t[i] \in Whitespace THEN SkipWs(t, i + 1) ELSE i

RECURSIVE ReadChars(_, _, _)
\* The characters of a string up to its closing quote; a raw control character
\* (the newline) inside a string is an error, as is an unknown escape.
ReadChars(t, i, acc) ==
    IF i > Len(t) THEN Fail
    ELSE IF t[i] = QUOTE THEN Ok(acc, i + 1)
    ELSE IF t[i] = NL THEN Fail
    ELSE IF t[i] = BSL THEN
        IF i + 1 > Len(t) THEN Fail
        ELSE IF t[i + 1] = "n" THEN ReadChars(t, i + 2, Append(acc, NL))
        ELSE IF t[i + 1] = QUOTE THEN ReadChars(t, i + 2, Append(acc, QUOTE))
        ELSE IF t[i + 1] = BSL THEN ReadChars(t, i + 2, Append(acc, BSL))
        ELSE Fail
    ELSE ReadChars(t, i + 1, Append(acc, t[i]))

ParseStr(t, i) ==
    IF i <= Len(t) /\ t[i] = QUOTE THEN ReadChars(t, i + 1, <<>>) ELSE Fail

RECURSIVE ParseMembers(_, _, _)
\* The members of an object from the first key on; i is at a key.  A repeated
\* key keeps its first place and takes the last value, as a Python dict does.
ParseMembers(t, i, acc) ==
    LET k == ParseStr(t, i) IN
    IF ~k.ok THEN Fail
    ELSE
    LET c == SkipWs(t, k.next) IN
    IF c > Len(t) \/ t[c] # ":" THEN Fail
    ELSE
    LET v == ParseStr(t, SkipWs(t, c + 1)) IN
    IF ~v.ok THEN Fail
    ELSE
    LET d == DictSet(acc, k.val, v.val)
        e == SkipWs(t, v.next)
    IN  IF e > Len(t) THEN Fail
        ELSE IF t[e] = "}" THEN Ok(d, e + 1)
        ELSE IF t[e] = "," THEN ParseMembers(t, SkipWs(t, e + 1), d)
        ELSE Fail

ParseObj(t, i) ==
    IF i > Len(t) \/ t[i] # "{" THEN Fail
    ELSE LET j == SkipWs(t, i + 1) IN
         IF j <= Len(t) /\ t[j] = "}" THEN Ok(<<>>, j + 1)
         ELSE ParseMembers(t, j, <<>>)

\* json.loads(line) for a line that holds an object with string members, or
\* text that is no JSON: [ok |-> TRUE, val |-> the record], or ok = FALSE where
\* json.loads raises JSONDecodeError.  Whitespace around the value is skipped;
\* anything after it is an error.
json_loads(line) ==
    LET r == ParseObj(line, SkipWs(line, 1)) IN
    IF r.ok /\ SkipWs(line, r.next) > Len(line)
    THEN [ok |-> TRUE, val |-> r.val]
    ELSE [ok |-> FALSE, val |-> <<>>]

\* ---------------------------------------------------------------- str.strip

RECURSIVE LStrip(_)
LStrip(s) == IF s # <<>> /\ Head(s) \in Whitespace THEN LStrip(Tail(s)) ELSE s

RECURSIVE RStrip(_)
RStrip(s) ==
    IF s # <<>> /\ s[Len(s)] \in Whitespace THEN RStrip(SubSeq(s, 1, Len(s) - 1)) ELSE s

strip(s) == RStrip(LStrip(s))

\* ------------------------------------------------------------ format_prompt

SystemMarker == <<"<|", "system", "|>">>
UserMarker == <<"<|", "user", "|>">>
AssistantMarker == <<"<|", "assistant", "|>">>
EndMarker == <<"<|", "end", "|>">>
DefaultSystemMessage ==
    <<"You are a helpful assistant. Provide clear and concise responses.">>

\* (mutant) the template without its user marker
format_prompt_no_user(user, system) ==
    LET sys == IF system = None THEN DefaultSystemMessage ELSE system[1] IN
    SystemMarker \o <<NL>>
    \o sys \o EndMarker \o <<NL>>
    \o user \o EndMarker \o <<NL>>
    \o AssistantMarker \o <<NL>>

format_prompt(user, system) ==
    LET sys == IF system = None THEN DefaultSystemMessage ELSE system[1] IN
    SystemMarker \o <<NL>>
    \o sys \o EndMarker \o <<NL>>
    \o UserMarker \o <<NL>>
    \o user \o EndMarker \o <<NL>>
    \o AssistantMarker \o <<NL>>

\* ---------------------------------------------------------------- inference

input_field == <<"input">>
output_key == <<"output">>

\* line 59: item[input_field] raises KeyError for an item without the field
MissingField(data) == \E i \in 1..Len(data) : ~HasKey(data[i], input_field)

\* lines 59-60
formatted_inputs(data) ==
    [i \in 1..Len(data) |-> format_prompt(Get(data[i], input_field), None)]

\* {**item, "output": output}
Augment(item, output) == DictSet(item, output_key, output)

\* (mutant) the texts paired with the records in reverse
inference_reversed(data, texts) ==
    [i \in 1..Min(Len(data), Len(texts)) |->
        Augment(data[i], strip(texts[Len(texts) + 1 - i]))]

\* lines 65-66, given the texts the engine generated (zip stops at the shorter)
inference(data, texts) ==
    [i \in 1..Min(Len(data), Len(texts)) |-> Augment(data[i], strip(texts[i]))]

\* ---------------------------------------------------------------- save_data

AbsentFile == [exists |-> FALSE, text |-> <<>>]

\* (mutant) open(file, mode="w"): the content is dropped
OpenTruncate(file) == [exists |-> TRUE, text |-> <<>>]

\* open(file, mode="a"): the file is created if absent, its content is kept
OpenAppend(file) == [exists |-> TRUE, text |-> file.text]

\* (mutant) line 78 without its + "\n"
DataTextNoNewline(data) == Concat([i \in 1..Len(data) |-> dumps(data[i])])

\* what the loop of lines 77-78 writes
DataText(data) == Concat([i \in 1..Len(data) |-> dumps(data[i]) \o <<NL>>])

save_data(data, file) ==
    LET f == OpenAppend(file) IN [f EXCEPT !.text = @ \o DataText(data)]

\* ------------------------------------------------------------------- inputs

P == "p"
Q == "q"

RecA == << <<<<"id">>, <<P>>>>, <<input_field, <<Q>>>> >>
RecB == << <<<<"id">>, <<Q>>>>, <<input_field, <<P, NL, Q>>>>, <<output_key, <<P>>>> >>
RecC == << <<<<"id">>, <<P>>>> >>
RecOld == << <<<<"id">>, <<Q>>>>, <<output_key, <<Q>>>> >>

\* RecA as a hand-written line; RecB and RecC as json.dumps writes them; a line
\* cut short, which is no JSON.
LineA == <<SP, "{", QUOTE, "id", QUOTE, ":", QUOTE, P, QUOTE, SP, ",", SP,
           QUOTE, "input", QUOTE, ":", SP, QUOTE, Q, QUOTE, "}", NL>>
LineB == dumps(RecB) \o <<NL>>
LineC == dumps(RecC) \o <<NL>>
LineCut == <<"{", QUOTE, "id", QUOTE, ":", SP, QUOTE, P, NL>>
GoodLines == {LineA, LineB, LineC}
BadLines == {LineCut}
LineSet == GoodLines \cup BadLines

SeqsUpTo(S, n) == UNION {[1..k -> S] : k \in 0..n}

InFiles == SeqsUpTo(LineSet, MaxLines)
OutFiles == {AbsentFile, [exists |-> TRUE, text |-> dumps(RecOld) \o <<NL>>]}

\* what the engine may generate for a prompt
GenTexts == {<<SP, P, NL>>, <<Q, NL, P>>}

\* --------------------------------------------------------------- load_data

\* (mutant) the test of line 22 off by one
BatchOverfull(batch, size) == Len(batch) = size + 1

\* line 22
BatchFull(batch, size) == Len(batch) = size

\* (mutant) line 24 as `batch = []`: a new list object, the old one left as it is
FreshBatch(h, ref) == [heap |-> Append(h, <<>>), ref |-> Len(h) + 1]

\* line 24, batch.clear(): the same list object, emptied
ClearBatch(h, ref) == [heap |-> [h EXCEPT ![ref] = <<>>], ref |-> ref]

\* the state of the operations a specification does not run
Idle == /\ retained = <<>> /\ calls = <<>>
        /\ user_message = <<>> /\ system_message = None /\ prompt = None

Init ==
    /\ inFile \in InFiles
    /\ batch_size \in 1..MaxBatch
    /\ out0 \in OutFiles
    /\ outFile = out0
    /\ pos = 0 /\ heap = <<>> /\ batchRef = 0 /\ cur = 0
    /\ gen = "start" /\ pc = "next"
    /\ outputs = <<>> /\ loads = 0 /\ err = "none"
    /\ yielded = <<>> /\ used = <<>> /\ gens = <<>> /\ reqPos = 0 /\ console = <<>>
    /\ Idle

idleVars == <<retained, calls, user_message, system_message, prompt>>
fileVars == <<inFile, batch_size, out0>>
mainVars == <<outputs, outFile, loads, used, gens, console>>

\* lines 18-19: the first next() opens the file and binds batch to a new list
GenStart ==
    /\ pc = "next" /\ gen = "start"
    /\ heap' = Append(heap, <<>>)
    /\ batchRef' = Len(heap) + 1
    /\ gen' = "loop"
    /\ UNCHANGED <<pos, pc, cur, err, yielded, reqPos, fileVars, mainVars, idleVars>>

\* lines 20-23: a line that parses is appended; a full batch is yielded
GenReadLine ==
    /\ pc = "next" /\ gen = "loop" /\ pos < Len(inFile)
    /\ LET r == json_loads(inFile[pos + 1])
           b == Append(heap[batchRef], r.val)
       IN  /\ r.ok
           /\ pos' = pos + 1
           /\ heap' = [heap EXCEPT ![batchRef] = b]
           /\ IF BatchFull(b, batch_size)
              THEN /\ gen' = "yield23"
                   /\ cur' = batchRef
                   /\ pc' = "body"
                   /\ yielded' = Append(yielded, b)
              ELSE UNCHANGED <<gen, cur, pc, yielded>>
    /\ UNCHANGED <<batchRef, err, reqPos, fileVars, mainVars, idleVars>>

\* (mutant) line 21 inside try/except: a line that does not parse is skipped
GenSkipBadLine ==
    /\ pc = "next" /\ gen = "loop" /\ pos < Len(inFile)
    /\ ~json_loads(inFile[pos + 1]).ok
    /\ pos' = pos + 1
    /\ UNCHANGED <<heap, batchRef, gen, pc, cur, err, yielded, reqPos, fileVars, mainVars,
                   idleVars>>

\* line 21: json.loads raises; the exception leaves the generator and main
GenParseError ==
    /\ pc = "next" /\ gen = "loop" /\ pos < Len(inFile)
    /\ ~json_loads(inFile[pos + 1]).ok
    /\ pos' = pos + 1
    /\ gen' = "raised"
    /\ err' = "malformed-record"
    /\ pc' = "halted"
    /\ UNCHANGED <<heap, batchRef, cur, yielded, reqPos, fileVars, mainVars, idleVars>>

\* line 24: resumed after the yield of a full batch
GenResume ==
    /\ pc = "next" /\ gen = "yield23"
    /\ LET c == ClearBatch(heap, batchRef) IN
           heap' = c.heap /\ batchRef' = c.ref
    /\ gen' = "loop"
    /\ UNCHANGED <<pos, pc, cur, err, yielded, reqPos, fileVars, mainVars, idleVars>>

\* lines 25-26 at the end of the file: the rest is yielded, if there is any
GenEOF ==
    /\ pc = "next" /\ gen = "loop" /\ pos = Len(inFile)
    /\ IF heap[batchRef] # <<>>
       THEN /\ gen' = "yield26"
            /\ cur' = batchRef
            /\ pc' = "body"
            /\ yielded' = Append(yielded, heap[batchRef])
       ELSE /\ gen' = "done"
            /\ pc' = "done"
            /\ UNCHANGED <<cur, yielded>>
    /\ UNCHANGED <<pos, heap, batchRef, err, reqPos, fileVars, mainVars, idleVars>>

\* resumed after the yield of line 26: the generator returns
GenFinish ==
    /\ pc = "next" /\ gen = "yield26"
    /\ gen' = "done"
    /\ pc' = "done"
    /\ UNCHANGED <<pos, heap, batchRef, cur, err, yielded, reqPos, fileVars, mainVars,
                   idleVars>>

Reader == GenStart \/ GenReadLine \/ GenParseError \/ GenResume \/ GenEOF \/ GenFinish

\* --------------------------------------------------------------------- main

readerVars == <<pos, heap, batchRef, gen, cur, yielded>>

\* (mutant) the loop body inside try/except: the error is noted, the loop goes on
Swallow(kind) == err' = kind /\ pc' = "next"

\* nothing in main catches: an exception raised in the loop ends the run
Halt(kind) == err' = kind /\ pc' = "halted"

\* line 87, inference line 59: a record without the input field
InferenceKeyError ==
    /\ pc = "body"
    /\ MissingField(heap[cur])
    /\ Halt("missing-field")
    /\ UNCHANGED <<reqPos, readerVars, fileVars, mainVars, idleVars>>

\* line 87, inference line 62: LLM(...) raises
InferenceLoadError ==
    /\ pc = "body"
    /\ ~MissingField(heap[cur])
    /\ Halt("engine-failure")
    /\ UNCHANGED <<reqPos, readerVars, fileVars, mainVars, idleVars>>

\* line 87, inference line 64: the engine is constructed and generate raises
InferenceGenerateError ==
    /\ pc = "body"
    /\ ~MissingField(heap[cur])
    /\ loads' = loads + 1
    /\ Halt("engine-failure")
    /\ UNCHANGED <<reqPos, readerVars, fileVars, outputs, outFile, used, gens, console,
                   idleVars>>

\* line 87: inference returns; the engine gives one text per prompt
Inference ==
    /\ pc = "body"
    /\ ~MissingField(heap[cur])
    /\ LET data == heap[cur]
           prompts == formatted_inputs(data)
       IN  \E texts \in [1..Len(prompts) -> GenTexts] :
               /\ loads' = loads + 1
               /\ outputs' = inference(data, texts)
               /\ used' = Append(used, data)
               /\ gens' = Append(gens, texts)
    /\ pc' = "save"
    /\ UNCHANGED <<err, reqPos, readerVars, fileVars, outFile, console, idleVars>>

\* line 88: save_data returns
SaveData ==
    /\ pc = "save"
    /\ outFile' = save_data(outputs, outFile)
    /\ pc' = "print"
    /\ UNCHANGED <<err, reqPos, readerVars, fileVars, outputs, loads, used, gens,
                   console, idleVars>>

\* line 88, save_data line 76: open raises, nothing is written
SaveOpenError ==
    /\ pc = "save"
    /\ Halt("write-failure")
    /\ UNCHANGED <<reqPos, readerVars, fileVars, mainVars, idleVars>>

\* line 88, save_data lines 77-78: a write, or the flush when the file is closed,
\* raises; a prefix of the data has reached the file: the lines of the first k
\* records and the first c characters of the next line (c up to MaxTorn)
SaveWriteError ==
    /\ pc = "save"
    /\ \E k \in 0..Len(outputs), c \in 0..MaxTorn :
           /\ c > 0 => k < Len(outputs) /\ c <= Len(dumps(outputs[k + 1]))
           /\ outFile' = [OpenAppend(outFile) EXCEPT
                              !.text = @ \o DataText(SubSeq(outputs, 1, k))
                                         \o (IF c > 0
                                             THEN SubSeq(dumps(outputs[k + 1]), 1, c)
                                             ELSE <<>>)]
    /\ Halt("write-failure")
    /\ UNCHANGED <<reqPos, readerVars, fileVars, outputs, loads, used, gens, console,
                   idleVars>>

\* line 89, then line 86 asks the generator for the next batch
PrintProcessed ==
    /\ pc = "print"
    /\ console' = Append(console, Len(heap[cur]))
    /\ pc' = "next"
    /\ reqPos' = pos
    /\ UNCHANGED <<err, readerVars, fileVars, outputs, outFile, loads, used, gens,
                   idleVars>>

Main ==
    \/ InferenceKeyError \/ InferenceLoadError \/ InferenceGenerateError \/ Inference
    \/ SaveData \/ SaveOpenError \/ SaveWriteError \/ PrintProcessed

Next == Reader \/ Main

Spec == Init /\ [][Next]_vars

\* ------------------------------------------------- a consumer that retains
\* A consumer that keeps every batch it is given and asks for the next one
\* without using it: kept = [b for b in load_data(file, batch_size)].

Retain ==
    /\ pc = "body"
    /\ retained' = Append(retained, cur)
    /\ pc' = "next"
    /\ reqPos' = pos
    /\ UNCHANGED <<err, readerVars, fileVars, mainVars, calls, user_message,
                   system_message, prompt>>

NextRetain == Reader \/ Retain

SpecRetain == Init /\ [][NextRetain]_vars

\* ------------------------------------------------ save_data, called in turn

SaveInputs == SeqsUpTo({RecA, RecB}, 2)

InitSave ==
    /\ out0 \in OutFiles
    /\ outFile = out0
    /\ calls = <<>>
    /\ pc = "save_data"
    /\ inFile = <<>> /\ batch_size = 1
    /\ pos = 0 /\ heap = <<>> /\ batchRef = 0 /\ cur = 0 /\ gen = "start"
    /\ outputs = <<>> /\ loads = 0 /\ err = "none"
    /\ yielded = <<>> /\ used = <<>> /\ gens = <<>> /\ reqPos = 0 /\ console = <<>>
    /\ retained = <<>>
    /\ user_message = <<>> /\ system_message = None /\ prompt = None

\* save_data(data, file) returns
SaveCall ==
    /\ pc = "save_data"
    /\ Len(calls) < MaxCalls
    /\ \E data \in SaveInputs :
           /\ outFile' = save_data(data, outFile)
           /\ calls' = Append(calls, data)
    /\ UNCHANGED <<pc, err, reqPos, readerVars, fileVars, outputs, loads, used, gens,
                   console, retained, user_message, system_message, prompt>>

NextSave == SaveCall

SpecSave == InitSave /\ [][NextSave]_vars

\* --------------------------------------------------- format_prompt, called

MsgChars == {"<|", "|>", "system", "user", "assistant", P}
Msgs == SeqsUpTo(MsgChars, MaxMsgLen)
FewMsgs == {<<>>, <<P>>, SystemMarker, UserMarker, AssistantMarker}

InitFormat ==
    /\ \/ user_message \in Msgs /\ system_message \in {None} \cup {Some(m) : m \in FewMsgs}
       \/ user_message \in FewMsgs /\ system_message \in {Some(m) : m \in Msgs}
    /\ prompt = None
    /\ pc = "format_prompt"
    /\ inFile = <<>> /\ batch_size = 1 /\ out0 = AbsentFile /\ outFile = AbsentFile
    /\ pos = 0 /\ heap = <<>> /\ batchRef = 0 /\ cur = 0 /\ gen = "start"
    /\ outputs = <<>> /\ loads = 0 /\ err = "none"
    /\ yielded = <<>> /\ used = <<>> /\ gens = <<>> /\ reqPos = 0 /\ console = <<>>
    /\ retained = <<>> /\ calls = <<>>

\* format_prompt(user_message, system_message) returns
FormatCall ==
    /\ pc = "format_prompt"
    /\ prompt' = Some(format_prompt(user_message, system_message))
    /\ pc' = "returned"
    /\ UNCHANGED <<err, reqPos, readerVars, fileVars, mainVars, retained, calls,
                   user_message, system_message>>

NextFormat == FormatCall

SpecFormat == InitFormat /\ [][NextFormat]_vars

\* =================================================================== claims

N == Len(inFile)
CeilDiv(n, b) == (n + b - 1) \div b

\* the record line i of the input file holds
Rec(i) == json_loads(inFile[i]).val
Recs(from, to) == [i \in 1..(to - from + 1) |-> Rec(from + i - 1)]

\* t is s without its leading and trailing whitespace
TrimOf(t, s) ==
    /\ t = <<>> \/ (t[1] \notin Whitespace /\ t[Len(t)] \notin Whitespace)
    /\ \E i \in 1..(Len(s) + 1) :
           /\ i + Len(t) - 1 <= Len(s)
           /\ SubSeq(s, i, i + Len(t) - 1) = t
           /\ \A j \in 1..Len(s) : (j < i \/ j >= i + Len(t)) => s[j] \in Whitespace

Keys(d) == {d[i][1] : i \in 1..Len(d)}
Pairs(d) == {d[i] : i \in 1..Len(d)}
DistinctKeys(d) == \A i, j \in 1..Len(d) : d[i][1] = d[j][1] => i = j

\* out is item with its "output" set to the trimmed text: the other members are
\* item's, in item's order, and "output" holds the trimmed text
Augmented(out, item, text) ==
    /\ DistinctKeys(out)
    /\ Keys(out) = Keys(item) \cup {output_key}
    /\ TrimOf(Get(out, output_key), text)
    /\ \A i \in 1..Len(item) : item[i][1] # output_key => out[i] = item[i]

\* the lines of a text that ends with a newline (or is empty), without the newlines
RECURSIVE SplitLines(_)
SplitLines(t) ==
    IF t = <<>> THEN <<>>
    ELSE LET n == CHOOSE i \in 1..Len(t) : t[i] = NL /\ \A j \in 1..(i - 1) : t[j] # NL
         IN  <<SubSeq(t, 1, n - 1)>> \o SplitLines(SubSeq(t, n + 1, Len(t)))

EndsLines(t) == t = <<>> \/ t[Len(t)] = NL

\* what the run has added to the output file
Appended == SubSeq(outFile.text, Len(out0.text) + 1, Len(outFile.text))

\* ---- C1
\* C1: a consumer that uses each batch before it asks for the next one (main:
\* inference reads the batch) is given batch j = records (j-1)*B+1 .. min(j*B, N)
\* of the file: every batch has B records but possibly the last, which has
\* 1..B; none is empty; and when the iteration has ended there were ceil(N/B)
\* batches whose concatenation is the file's record sequence.
C1_BatchesPartitionFile ==
    /\ \A j \in 1..Len(used) :
           /\ used[j] = Recs((j - 1) * batch_size + 1, Min(j * batch_size, N))
           /\ Len(used[j]) >= 1 /\ Len(used[j]) <= batch_size
           /\ j < Len(used) => Len(used[j]) = batch_size
    /\ pc = "done" =>
           /\ Len(used) = CeilDiv(N, batch_size)
           /\ Concat(used) = Recs(1, N)

C1_Witness ==
    /\ pc = "done" /\ Len(used) = 2 /\ N = 3 /\ batch_size = 2
    /\ Len(used[2]) = 1 /\ used[1][2] # used[2][1]

\* ---- C2
\* C2: the engine is constructed at most once in a run of main, however many
\* batches the input gives.
C2_LoadedOnce == loads <= 1

\* ---- C3
\* C3 as stated: inference returns K records in input order, the i-th holding
\* every key/value of the i-th input unchanged plus one new "output" key with
\* the trimmed i-th text, whatever the record holds.
C3_Original ==
    pc = "save" =>
        LET data == heap[cur]
            texts == gens[Len(gens)]
        IN  /\ Len(outputs) = Len(data)
            /\ \A i \in 1..Len(data) :
                   /\ Pairs(data[i]) \subseteq Pairs(outputs[i])
                   /\ Len(outputs[i]) = Len(data[i]) + 1
                   /\ TrimOf(Get(outputs[i], output_key), texts[i])

\* C3 amended: inference returns K records in input order; the i-th holds every
\* key/value of the i-th input other than "output" unchanged and in place, and
\* its "output" is the trimmed i-th text: a new last key for a record without
\* "output", the replaced value for a record that carried one.
C3_Amended ==
    pc = "save" =>
        LET data == heap[cur]
            texts == gens[Len(gens)]
        IN  /\ Len(outputs) = Len(data)
            /\ \A i \in 1..Len(data) :
                   /\ Augmented(outputs[i], data[i], texts[i])
                   /\ Len(outputs[i]) =
                          Len(data[i]) + (IF HasKey(data[i], output_key) THEN 0 ELSE 1)

C3_Witness ==
    /\ pc = "save" /\ Len(outputs) = 2
    /\ HasKey(heap[cur][1], output_key) /\ ~HasKey(heap[cur][2], output_key)
    /\ gens[Len(gens)][1] # gens[Len(gens)][2]
    /\ Get(outputs[1], output_key) # Get(heap[cur][1], output_key)

\* ---- C4
\* C4: when main has completed on N records, the run has appended exactly N
\* lines to the output file, and line i is record i of the input with its
\* "output" set to the trimmed text generated for it.
C4_OutputLines ==
    pc = "done" =>
        LET lines == SplitLines(Appended)
            texts == Concat(gens)
        IN  /\ EndsLines(Appended)
            /\ Len(lines) = N
            /\ Len(texts) = N
            /\ \A i \in 1..N :
                   /\ json_loads(lines[i]).ok
                   /\ Augmented(json_loads(lines[i]).val, Rec(i), texts[i])

C4_Witness ==
    /\ pc = "done" /\ N = 3 /\ batch_size = 2 /\ out0.exists
    /\ Rec(1) # Rec(2) /\ Rec(2) # Rec(3)
    /\ Concat(gens)[1] # Concat(gens)[2]

\* ---- C5
\* C5: save_data only appends: after any sequence of calls the file exists, its
\* content is the content before the calls followed by one line per record of
\* every call, in call and record order, each line parsing back to its record;
\* the same data saved twice is there twice.
C5_AppendOnly ==
    LET records == Concat(calls)
        lines == SplitLines(Appended)
    IN  /\ IsPrefix(out0.text, outFile.text)
        /\ calls # <<>> => outFile.exists
        /\ EndsLines(Appended)
        /\ Len(lines) = Len(records)
        /\ \A i \in 1..Len(records) :
               json_loads(lines[i]) = [ok |-> TRUE, val |-> records[i]]

C5_Witness ==
    /\ Len(calls) = 3 /\ calls[2] = calls[3] /\ Len(calls[2]) = 2
    /\ calls[1] # <<>> /\ calls[1] # calls[2]
    /\ ~out0.exists

\* ---- C6
\* the batch the driver was handling when the run halted
FailingBatch == IF err = "malformed-record" THEN Len(yielded) + 1 ELSE Len(yielded)

\* what save_data writes for batch j
BatchText(j) == DataText(inference(yielded[j], gens[j]))
SavedText(k) == Concat([j \in 1..k |-> BatchText(j)])

\* C6 as stated: after any error while batch i is handled the run has halted
\* and the output file holds the records of batches 1..i-1 and no record (no
\* complete line) of batch i or of a later one.
C6_Original ==
    /\ err # "none" => pc = "halted"
    /\ pc = "halted" =>
           /\ ~ENABLED Next
           /\ LET before == out0.text \o SavedText(FailingBatch - 1)
                  rest == SubSeq(outFile.text, Len(before) + 1, Len(outFile.text))
              IN  /\ IsPrefix(before, outFile.text)
                  /\ \A i \in 1..Len(rest) : rest[i] # NL

\* C6 amended: after any error while batch i is handled the run has halted, no
\* later batch is read, inferred or written, and the output file holds the
\* records of batches 1..i-1 followed by nothing of batch i when the error is
\* a malformed record, a missing field, an engine failure or a failure to open
\* the output file, and by some prefix of batch i's lines (whole records of
\* batch i, possibly ending inside a line) when a write failed; it holds
\* nothing of a later batch.
C6_Amended ==
    /\ err # "none" => pc = "halted"
    /\ pc = "halted" =>
           /\ ~ENABLED Next
           /\ err \in {"malformed-record", "missing-field", "engine-failure",
                       "write-failure"}
           /\ LET before == out0.text \o SavedText(FailingBatch - 1)
                  rest == SubSeq(outFile.text, Len(before) + 1, Len(outFile.text))
              IN  /\ IsPrefix(before, outFile.text)
                  /\ IF err = "write-failure"
                     THEN IsPrefix(rest, BatchText(FailingBatch))
                     ELSE rest = <<>>

C6_Witness ==
    /\ pc = "halted" /\ err = "write-failure" /\ FailingBatch = 2 /\ pos < N
    /\ Len(outFile.text) > Len(out0.text \o SavedText(1))
    /\ ~EndsLines(Appended)

\* ---- C7
\* C7: the reader raises at the first line m that is no JSON and nowhere else;
\* the batches yielded before are the floor((m-1)/B) full batches of lines
\* 1..B*floor((m-1)/B), so none holds line m or a line after it, and the
\* generator yields nothing more.
C7_ParseError ==
    /\ \A i \in 1..pos : inFile[i] \in BadLines => (i = pos /\ err = "malformed-record")
    /\ err = "malformed-record" =>
           LET m == pos
               k == (m - 1) \div batch_size
           IN  /\ inFile[m] \in BadLines
               /\ gen = "raised"
               /\ ~ENABLED Reader
               /\ Len(yielded) = k
               /\ \A j \in 1..k :
                      yielded[j] = Recs((j - 1) * batch_size + 1, j * batch_size)

C7_Witness ==
    /\ err = "malformed-record" /\ batch_size = 2 /\ pos = 3 /\ Len(yielded) = 1

\* ---- C9
\* C9: the reader's list never holds more than B records; the reader reads only
\* while the consumer waits for a batch, at most B lines per request; and while
\* main infers, writes or prints batch i exactly min(i*B, N) lines are consumed.
C9_LazyBounded ==
    /\ \A r \in 1..Len(heap) : Len(heap[r]) <= batch_size
    /\ pos - reqPos <= batch_size
    /\ pc \in {"body", "save", "print"} =>
           pos = Min(Len(yielded) * batch_size, N)

C9_Witness ==
    /\ pc = "save" /\ Len(yielded) = 2 /\ pos = 2 /\ N = 3 /\ batch_size = 1

\* ---- C10
\* C10: every batch load_data yields is the one list; a consumer that keeps the
\* batches and reads them when the iteration has ended finds each equal to the
\* last partial batch, or empty when B divides N.
C10_OneBuffer ==
    pc = "done" =>
        /\ Len(retained) = CeilDiv(N, batch_size)
        /\ \A k \in 1..Len(retained) :
               /\ retained[k] = retained[1]
               /\ heap[retained[k]] = Recs(N - (N % batch_size) + 1, N)

C10_Witness ==
    /\ pc = "done" /\ Len(retained) = 2 /\ N = 3
    /\ yielded[1] # heap[retained[1]]
    /\ heap[retained[1]] # <<>>

\* ---- C8
Occurrences(m, t) == {i \in 1..(Len(t) - Len(m) + 1) : SubSeq(t, i, i + Len(m) - 1) = m}
Count(m, t) == Cardinality(Occurrences(m, t))
Markers == {SystemMarker, UserMarker, AssistantMarker}
SystemText == IF system_message = None THEN DefaultSystemMessage ELSE system_message[1]

\* C8 as stated: whatever the messages hold, the prompt has exactly one system
\* marker, one user marker and one assistant marker, in that order.
C8_Original ==
    prompt # None =>
        LET t == prompt[1] IN
        /\ \A m \in Markers : Count(m, t) = 1
        /\ \A i \in Occurrences(SystemMarker, t), j \in Occurrences(UserMarker, t),
              k \in Occurrences(AssistantMarker, t) : i < j /\ j < k

\* C8 amended: when neither message holds a marker (the empty string included)
\* the prompt has exactly one system, one user and one assistant marker, in
\* that order; a marker inside a message is copied as it is, so the prompt
\* holds each marker once more than the two messages together do.
C8_Amended ==
    prompt # None =>
        LET t == prompt[1] IN
        /\ \A m \in Markers :
               Count(m, t) = 1 + Count(m, user_message) + Count(m, SystemText)
        /\ (\A m \in Markers : Count(m, user_message) = 0 /\ Count(m, SystemText) = 0)
               => \A i \in Occurrences(SystemMarker, t), j \in Occurrences(UserMarker, t),
                     k \in Occurrences(AssistantMarker, t) : i < j /\ j < k

C8_Witness ==
    /\ prompt # None /\ user_message = <<>> /\ system_message = Some(<<>>)
    /\ \A m \in Markers : Count(m, prompt[1]) = 1

====
